---- MODULE Spec2Model ----
(***************************************************************************)
(* Model of src/app.py, the Streamlit "Google OAuth Token Generator".      *)
(*                                                                         *)
(* Streamlit re-executes the whole script, top to bottom, on every widget  *)
(* interaction.  One action of this model is therefore one interaction     *)
(* followed by one complete run of the script: step 1 (upload             *)
(* validation), step 2 (authorization URL), step 3 (token exchange) and    *)
(* the temp-file cleanup at the end.  The state between two actions is     *)
(* what survives a run: st.session_state, the widget values, the files on  *)
(* disk, and what the run rendered.                                        *)
(*                                                                         *)
(* Optional values (Python None / a missing key) are sequences of length   *)
(* 0 or 1: <<>> is None, <<x>> is x.  Strings of user input are sequences  *)
(* of tokens.                                                              *)
(***************************************************************************)
EXTENDS Integers, Sequences, FiniteSets, TLC

VARIABLES
    uploaded_file,        \* st.file_uploader value: <<>> or <<file>>
    redirect_url,         \* st.text_input value: a sequence of tokens
    shown,                \* widgets rendered by the last run
    credentials_uploaded, \* st.session_state.credentials_uploaded
    credentials_path,     \* st.session_state.credentials_path: <<>> (unset) or <<p>>
    auth_url,             \* st.session_state.auth_url: <<>> or <<url>>
    flow,                 \* st.session_state.flow: <<>> or <<flow>>
    disk,                 \* temp directory: path -> <<>> (absent) or <<content>>
    upload_msg,           \* what step 1 of the last run reported
    url_built,            \* flows built by the last run
    url_msg,              \* what step 2 of the last run reported
    requests,             \* token requests issued by the last run
    auth_code,            \* code handed to fetch_token by the last run: <<>> or <<code>>
    response,             \* the provider's answer in the last run: <<>> or <<resp>>
    token_data,           \* token descriptor produced by the last run: <<>> or <<td>>
    token_msg,            \* what step 3 of the last run reported
    attempt_failed        \* history: an exchange failed since the last URL generation

vars == <<uploaded_file, redirect_url, shown, credentials_uploaded,
          credentials_path, auth_url, flow, disk, upload_msg,
          url_built, url_msg, requests, auth_code, response, token_data,
          token_msg, attempt_failed>>

session == <<credentials_uploaded, auth_url, flow>>

(***************************************************************************)
(* Bounds.                                                                 *)
(***************************************************************************)
\* Number of distinct temp-file names the temp directory can hold.
MaxPaths == 3

Paths == 1..MaxPaths

\* Longest free-form redirect string, in tokens.
MaxLen == 4

\* Most parameters in a generated query string.
MaxPairs == 2

(***************************************************************************)
(* Program constants.                                                      *)
(***************************************************************************)
SCOPES == <<"gmail.modify", "gmail.readonly", "calendar">>

REDIRECT_URI == "http://localhost:8080"

(***************************************************************************)
(* Uploaded files.                                                         *)
(***************************************************************************)
\* A client configuration object as found under "installed" or "web".
Client(c, complete) ==
    [client_id     |-> <<c>>,
     client_secret |-> <<"secret", c>>,
     auth_uri      |-> IF complete THEN <<"auth_uri", c>> ELSE <<>>,
     token_uri     |-> IF complete THEN <<"token_uri", c>> ELSE <<>>]

\* A client configuration object without a client_id key.
ClientNoId ==
    [client_id     |-> <<>>,
     client_secret |-> <<"secret", "N">>,
     auth_uri      |-> <<"auth_uri", "N">>,
     token_uri     |-> <<"token_uri", "N">>]

NoKeysFile == [kind |-> "object", installed |-> <<>>, web |-> <<>>]

WebFile == [kind |-> "object", installed |-> <<>>, web |-> <<Client("W", TRUE)>>]

InstalledFile(c) ==
    [kind |-> "object", installed |-> <<Client(c, TRUE)>>, web |-> <<>>]

\* installed without auth_uri and token_uri.
IncompleteFile ==
    [kind |-> "object", installed |-> <<Client("A", FALSE)>>, web |-> <<>>]

NoIdFile == [kind |-> "object", installed |-> <<ClientNoId>>, web |-> <<>>]

BothFile ==
    [kind |-> "object", installed |-> <<Client("A", TRUE)>>,
     web |-> <<Client("W", TRUE)>>]

\* kind: "bad" is not JSON, "object" is a JSON object with the optional
\* keys installed and web.
BadFile == [kind |-> "bad", installed |-> <<>>, web |-> <<>>]

Files ==
    {BadFile, NoKeysFile, WebFile, InstalledFile("A"),
     InstalledFile("B"), IncompleteFile, NoIdFile, BothFile}

\* Content of a temp file that was created but never written.
EmptyContent == [kind |-> "empty", installed |-> <<>>, web |-> <<>>]

(***************************************************************************)
(* Redirect strings.  A string is a sequence of tokens.  The tokens "?",   *)
(* "#", "&" and "=" are the URL delimiters; "code" is the parameter name   *)
(* code; "c%6Fde" is the same name with one letter percent-encoded; "+"    *)
(* and "%41" are the encoded forms of " " and "A"; every other token is a  *)
(* piece of text without delimiters.                                       *)
(***************************************************************************)
RECURSIVE IndexFrom(_, _, _)
\* Least i >= from with s[i] = ch, or 0.
IndexFrom(s, ch, from) ==
    IF from > Len(s) THEN 0
    ELSE IF s[from] = ch THEN from
    ELSE IndexFrom(s, ch, from + 1)

IndexOf(s, ch) == IndexFrom(s, ch, 1)

\* str.split(sep, 1): <<head, tail>> at the first sep, or <<s>> without one.
SplitOnce(s, sep) ==
    LET i == IndexOf(s, sep) IN
    IF i = 0 THEN <<s>>
    ELSE <<SubSeq(s, 1, i - 1), SubSeq(s, i + 1, Len(s))>>

RECURSIVE SplitAll(_, _)
\* str.split(sep): all the pieces between occurrences of sep.
SplitAll(s, sep) ==
    LET i == IndexOf(s, sep) IN
    IF i = 0 THEN <<s>>
    ELSE <<SubSeq(s, 1, i - 1)>> \o SplitAll(SubSeq(s, i + 1, Len(s)), sep)

\* urlparse(redirect_url).query: the fragment is cut off at the first "#",
\* then the query is what follows the first "?".
UrlQuery(s) ==
    LET nofrag == SplitOnce(s, "#")[1]
        parts  == SplitOnce(nofrag, "?")
    IN  IF Len(parts) = 2 THEN parts[2] ELSE <<>>

\* unquote of one token after replace('+', ' ').
DecodeToken(t) ==
    CASE t = "+"      -> " "
      [] t = "%41"    -> "A"
      [] t = "c%6Fde" -> "code"
      [] OTHER        -> t

Unquote(s) == [i \in 1..Len(s) |-> DecodeToken(s[i])]

RECURSIVE QslPairs(_)
\* parse_qsl over the "&"-separated pieces (keep_blank_values=False,
\* strict_parsing=False): a piece without "=" or with an empty value is
\* dropped, name and value are decoded.
QslPairs(pieces) ==
    IF pieces = <<>> THEN <<>>
    ELSE LET nv   == SplitOnce(pieces[1], "=")
             rest == QslPairs(Tail(pieces))
         IN  IF Len(nv) = 2 /\ nv[2] # <<>>
             THEN <<[name |-> Unquote(nv[1]), value |-> Unquote(nv[2])]>> \o rest
             ELSE rest

ParseQsl(qs) == IF qs = <<>> THEN <<>> ELSE QslPairs(SplitAll(qs, "&"))

RECURSIVE ValuesOf(_, _)
\* parse_qs(...)[name]: the values of the pairs called name, in order;
\* <<>> when name is not a key of the dictionary.
ValuesOf(pairs, name) ==
    IF pairs = <<>> THEN <<>>
    ELSE IF pairs[1].name = name
         THEN <<pairs[1].value>> \o ValuesOf(Tail(pairs), name)
         ELSE ValuesOf(Tail(pairs), name)

\* Variant: the last value of code is taken instead of the first.
ExtractLastCode(s) ==
    LET values == ValuesOf(ParseQsl(UrlQuery(s)), <<"code">>) IN
    IF values = <<>> THEN <<>> ELSE <<values[Len(values)]>>

\* Variant: a string without any URL delimiter is taken as the code itself.
ExtractCodeOrBare(s) ==
    LET values == ValuesOf(ParseQsl(UrlQuery(s)), <<"code">>) IN
    IF values # <<>> THEN <<values[1]>>
    ELSE IF s # <<>> /\ \A i \in 1..Len(s) : s[i] \notin {"?", "#", "&", "="}
         THEN <<Unquote(s)>>
         ELSE <<>>

\* Lines 134-140: <<>> when 'code' is not in query_params, else
\* <<query_params['code'][0]>>.
ExtractCode(s) ==
    LET values == ValuesOf(ParseQsl(UrlQuery(s)), <<"code">>) IN
    IF values = <<>> THEN <<>> ELSE <<values[1]>>

(***************************************************************************)
(* Step 1: upload validation (lines 50-75).                                *)
(***************************************************************************)
\* Names tempfile may hand out: not on disk.  Names are random, so one the
\* session still remembers is not handed out again either.
FreePaths(dk, cp) == {p \in Paths : dk[p] = <<>> /\ cp # <<p>>}

\* The name NamedTemporaryFile picks (line 53).
TempName(dk, cp) == CHOOSE p \in FreePaths(dk, cp) : \A q \in FreePaths(dk, cp) : p <= q

\* Line 54: json.loads fails on a file that is not JSON.
JsonLoads(file) == IF file.kind = "bad" THEN <<>> ELSE <<file>>

\* Variant: a web client is taken for a desktop client.
VerifyDesktopOrWeb(data) ==
    IF data.installed = <<>> /\ data.web = <<>> THEN "not_desktop"
    ELSE IF data.installed # <<>> /\ data.installed[1].client_id = <<>> THEN "error"
    ELSE "verified"

\* Lines 59 and 65 on a parsed JSON object: the message step 1 ends with.
\* A missing client_id raises KeyError at line 65 and reaches line 73.
VerifyDesktop(data) ==
    IF data.installed = <<>> THEN "not_desktop"
    ELSE IF data.installed[1].client_id = <<>> THEN "error"
    ELSE "verified"

\* Variant: line 62 is missing, a rejected file leaves the flag as it was.
UploadStepKeepsFlag(cu, cp, dk, upl, p) ==
    IF upl = <<>>
    THEN [cu |-> cu, cp |-> cp, dk |-> dk, msg |-> "none"]
    ELSE LET data == JsonLoads(upl[1]) IN
         IF data = <<>>
         THEN [cu |-> FALSE, cp |-> cp,
               dk |-> [dk EXCEPT ![p] = <<EmptyContent>>],
               msg |-> "invalid_json"]
         ELSE LET written == [dk EXCEPT ![p] = data]
                  verdict == VerifyDesktop(data[1])
              IN  IF verdict = "verified"
                  THEN [cu |-> TRUE, cp |-> <<p>>, dk |-> written,
                        msg |-> verdict]
                  ELSE [cu |-> IF verdict = "not_desktop" THEN cu ELSE FALSE,
                        cp |-> cp, dk |-> written, msg |-> verdict]

\* Variant: the flag and the path are set before the file is verified.
UploadStepFlagFirst(cu, cp, dk, upl, p) ==
    IF upl = <<>>
    THEN [cu |-> cu, cp |-> cp, dk |-> dk, msg |-> "none"]
    ELSE LET data == JsonLoads(upl[1]) IN
         IF data = <<>>
         THEN [cu |-> FALSE, cp |-> cp,
               dk |-> [dk EXCEPT ![p] = <<EmptyContent>>],
               msg |-> "invalid_json"]
         ELSE [cu |-> TRUE, cp |-> <<p>>, dk |-> [dk EXCEPT ![p] = data],
               msg |-> VerifyDesktop(data[1])]

\* Lines 50-75 with the uploader holding upl and p the fresh temp name.
\* NamedTemporaryFile creates p before json.loads runs, and json.dump
\* writes the parsed data into it.
UploadStep(cu, cp, dk, upl, p) ==
    IF upl = <<>>
    THEN [cu |-> cu, cp |-> cp, dk |-> dk, msg |-> "none"]
    ELSE LET data == JsonLoads(upl[1]) IN
         IF data = <<>>
         THEN [cu |-> FALSE, cp |-> cp,
               dk |-> [dk EXCEPT ![p] = <<EmptyContent>>],
               msg |-> "invalid_json"]
         ELSE LET written == [dk EXCEPT ![p] = data]
                  verdict == VerifyDesktop(data[1])
              IN  IF verdict = "verified"
                  THEN [cu |-> TRUE, cp |-> <<p>>, dk |-> written,
                        msg |-> verdict]
                  ELSE [cu |-> FALSE, cp |-> cp, dk |-> written,
                        msg |-> verdict]

(***************************************************************************)
(* Step 2: authorization URL (lines 78-103).                               *)
(***************************************************************************)
\* Flow.from_client_secrets_file (lines 87-91): <<>> when it raises (the
\* file is missing, is not JSON, has neither web nor installed, or the
\* chosen client object lacks client_id, auth_uri or token_uri).  The
\* library takes "web" when both keys are present.
FlowFromClientSecretsFile(dk, cp) ==
    IF cp = <<>> \/ dk[cp[1]] = <<>> THEN <<>>
    ELSE LET content == dk[cp[1]][1]
             type    == IF content.web # <<>> THEN "web"
                        ELSE IF content.installed # <<>> THEN "installed"
                        ELSE "none"
             config  == IF type = "web" THEN content.web
                        ELSE IF type = "installed" THEN content.installed
                        ELSE <<>>
         IN  IF content.kind # "object" \/ config = <<>> THEN <<>>
             ELSE IF \/ config[1].client_id = <<>>
                     \/ config[1].auth_uri = <<>>
                     \/ config[1].token_uri = <<>>
                  THEN <<>>
                  ELSE <<[client_type   |-> type,
                          client_config |-> config[1],
                          scopes        |-> SCOPES,
                          redirect_uri  |-> REDIRECT_URI,
                          token         |-> <<>>]>>

\* Variant: the URL is requested without access_type='offline'.
AuthorizationUrlOnline(fl) ==
    [endpoint               |-> fl.client_config.auth_uri,
     client_id              |-> fl.client_config.client_id,
     redirect_uri           |-> fl.redirect_uri,
     response_type          |-> "code",
     scope                  |-> fl.scopes,
     access_type            |-> "online",
     include_granted_scopes |-> "true"]

\* flow.authorization_url(access_type='offline',
\* include_granted_scopes='true') (lines 94-97): the request parameters.
AuthorizationUrl(fl) ==
    [endpoint               |-> fl.client_config.auth_uri,
     client_id              |-> fl.client_config.client_id,
     redirect_uri           |-> fl.redirect_uri,
     response_type          |-> "code",
     scope                  |-> fl.scopes,
     access_type            |-> "offline",
     include_granted_scopes |-> "true"]

\* str(e) of the exception the handler reports at line 103: open() finds no
\* file at credentials_path, or the library rejects the file's content.
UrlError(dk, cp) ==
    IF cp # <<>> /\ dk[cp[1]] = <<>> THEN "no_such_file" ELSE "error"

\* Variant: a failed generation forgets the URL and keeps the flow.
GenerateUrlClearsUrl(au, fl, dk, cp) ==
    LET built == FlowFromClientSecretsFile(dk, cp) IN
    IF built = <<>>
    THEN [au |-> <<>>, fl |-> fl, built |-> 0, msg |-> UrlError(dk, cp)]
    ELSE [au |-> <<AuthorizationUrl(built[1])>>, fl |-> built, built |-> 1,
          msg |-> "generated"]

\* Lines 84-103: the button handler, run when the button was clicked.
GenerateUrl(au, fl, dk, cp) ==
    LET built == FlowFromClientSecretsFile(dk, cp) IN
    IF built = <<>>
    THEN [au |-> au, fl |-> fl, built |-> 0, msg |-> UrlError(dk, cp)]
    ELSE [au |-> <<AuthorizationUrl(built[1])>>, fl |-> built, built |-> 1,
          msg |-> "generated"]

\* Lines 78-103: step 2 is entered only when credentials_uploaded holds.
UrlStep(cu, cp, au, fl, dk, clicked) ==
    IF cu /\ clicked
    THEN GenerateUrl(au, fl, dk, cp)
    ELSE [au |-> au, fl |-> fl, built |-> 0, msg |-> "none"]

(***************************************************************************)
(* Step 3: token exchange (lines 110-209).                                 *)
(***************************************************************************)
\* What the token endpoint may answer to the one POST of fetch_token.
Responses ==
    {[status |-> "ok", access_token |-> <<"T">>, refresh_token |-> <<"R">>,
      scope |-> SCOPES],
     [status |-> "ok", access_token |-> <<"T">>, refresh_token |-> <<>>,
      scope |-> SCOPES],
     [status |-> "ok", access_token |-> <<"T">>, refresh_token |-> <<"R">>,
      scope |-> <<"calendar">>],
     [status |-> "invalid_grant", access_token |-> <<>>, refresh_token |-> <<>>,
      scope |-> <<>>],
     [status |-> "network", access_token |-> <<>>, refresh_token |-> <<>>,
      scope |-> <<>>]}

\* flow.fetch_token(code=auth_code) (line 145): it raises on every answer
\* but a 2xx token response for the requested scopes (a token response for
\* other scopes raises "Scope has changed"), and then leaves the flow as it
\* was; on success the flow holds the token.
FetchToken(fl, code, resp) ==
    IF resp.status = "ok" /\ resp.scope = fl.scopes
    THEN [ok |-> TRUE,
          fl |-> [fl EXCEPT !.token = <<[access_token  |-> resp.access_token,
                                         refresh_token |-> resp.refresh_token]>>]]
    ELSE [ok |-> FALSE, fl |-> fl]

\* flow.credentials (line 146) of a flow that holds a token.
FlowCredentials(fl) ==
    [token         |-> fl.token[1].access_token,
     refresh_token |-> fl.token[1].refresh_token,
     token_uri     |-> fl.client_config.token_uri,
     client_id     |-> fl.client_config.client_id,
     client_secret |-> fl.client_config.client_secret,
     scopes        |-> fl.scopes]

\* Variant: a missing refresh token is filled with the access token.
TokenDataRefreshDefault(creds) ==
    [token         |-> creds.token,
     refresh_token |-> IF creds.refresh_token = <<>> THEN creds.token
                       ELSE creds.refresh_token,
     token_uri     |-> creds.token_uri,
     client_id     |-> creds.client_id,
     client_secret |-> creds.client_secret,
     scopes        |-> creds.scopes]

\* Lines 149-156.
TokenData(creds) ==
    [token         |-> creds.token,
     refresh_token |-> creds.refresh_token,
     token_uri     |-> creds.token_uri,
     client_id     |-> creds.client_id,
     client_secret |-> creds.client_secret,
     scopes        |-> creds.scopes]

NoToken(fl, msg) ==
    [fl |-> fl, requests |-> 0, code |-> <<>>, resp |-> <<>>,
     td |-> <<>>, msg |-> msg]

\* Variant: a missing code is sent to the token endpoint as an empty code.
GenerateTokenAlways(fl, text, resp) ==
    LET found == ExtractCode(text)
        code  == IF found = <<>> THEN <<<<>>>> ELSE found
    IN
    IF fl = <<>> THEN NoToken(fl, "exception")
    ELSE LET fetched == FetchToken(fl[1], code[1], resp) IN
         IF fetched.ok
         THEN [fl |-> <<fetched.fl>>, requests |-> 1, code |-> code,
               resp |-> <<resp>>,
               td |-> <<TokenData(FlowCredentials(fetched.fl))>>,
               msg |-> "success"]
         ELSE [fl |-> <<fetched.fl>>, requests |-> 1, code |-> code,
               resp |-> <<resp>>, td |-> <<>>, msg |-> "exception"]

\* Variant: a failed exchange discards the flow and the URL is kept.
GenerateTokenDropsFlow(fl, text, resp) ==
    LET code == ExtractCode(text) IN
    IF code = <<>> THEN NoToken(fl, "no_code")
    ELSE IF fl = <<>> THEN NoToken(fl, "exception")
    ELSE LET fetched == FetchToken(fl[1], code[1], resp) IN
         IF fetched.ok
         THEN [fl |-> <<fetched.fl>>, requests |-> 1, code |-> code,
               resp |-> <<resp>>,
               td |-> <<TokenData(FlowCredentials(fetched.fl))>>,
               msg |-> "success"]
         ELSE [fl |-> <<>>, requests |-> 1, code |-> code,
               resp |-> <<resp>>, td |-> <<>>, msg |-> "exception"]

\* Variant: token_data is built from the client configuration before the
\* exchange, and shown whether or not the exchange succeeded.
GenerateTokenPartial(fl, text, resp) ==
    LET code == ExtractCode(text) IN
    IF code = <<>> THEN NoToken(fl, "no_code")
    ELSE IF fl = <<>> THEN NoToken(fl, "exception")
    ELSE LET fetched == FetchToken(fl[1], code[1], resp) IN
         IF fetched.ok
         THEN [fl |-> <<fetched.fl>>, requests |-> 1, code |-> code,
               resp |-> <<resp>>,
               td |-> <<TokenData(FlowCredentials(fetched.fl))>>,
               msg |-> "success"]
         ELSE [fl |-> <<fetched.fl>>, requests |-> 1, code |-> code,
               resp |-> <<resp>>,
               td |-> <<[token         |-> <<>>,
                         refresh_token |-> <<>>,
                         token_uri     |-> fl[1].client_config.token_uri,
                         client_id     |-> fl[1].client_config.client_id,
                         client_secret |-> fl[1].client_config.client_secret,
                         scopes        |-> fl[1].scopes]>>,
               msg |-> "exception"]

\* Variant: a failed exchange is repeated once before it is reported.
GenerateTokenRetry(fl, text, resp) ==
    LET code == ExtractCode(text) IN
    IF code = <<>> THEN NoToken(fl, "no_code")
    ELSE IF fl = <<>> THEN NoToken(fl, "exception")
    ELSE LET fetched == FetchToken(fl[1], code[1], resp) IN
         IF fetched.ok
         THEN [fl |-> <<fetched.fl>>, requests |-> 1, code |-> code,
               resp |-> <<resp>>,
               td |-> <<TokenData(FlowCredentials(fetched.fl))>>,
               msg |-> "success"]
         ELSE [fl |-> <<fetched.fl>>, requests |-> 2, code |-> code,
               resp |-> <<resp>>, td |-> <<>>, msg |-> "exception"]

\* Lines 132-209: the button handler.  fl is st.session_state.flow; were it
\* None, line 145 would raise AttributeError before any request.
GenerateToken(fl, text, resp) ==
    LET code == ExtractCode(text) IN
    IF code = <<>> THEN NoToken(fl, "no_code")
    ELSE IF fl = <<>> THEN NoToken(fl, "exception")
    ELSE LET fetched == FetchToken(fl[1], code[1], resp) IN
         IF fetched.ok
         THEN [fl |-> <<fetched.fl>>, requests |-> 1, code |-> code,
               resp |-> <<resp>>,
               td |-> <<TokenData(FlowCredentials(fetched.fl))>>,
               msg |-> "success"]
         ELSE [fl |-> <<fetched.fl>>, requests |-> 1, code |-> code,
               resp |-> <<resp>>, td |-> <<>>, msg |-> "exception"]

\* Lines 78, 110 and 131: step 3 sits inside step 2's block and inside
\* `if st.session_state.auth_url`, and the button is evaluated only for a
\* non-empty text.
TokenStep(cu, au, fl, text, clicked, resp) ==
    IF cu /\ au # <<>> /\ text # <<>> /\ clicked
    THEN GenerateToken(fl, text, resp)
    ELSE NoToken(fl, "none")

(***************************************************************************)
(* End of the run.                                                         *)
(***************************************************************************)
\* Lines 244-249.
Cleanup(cp, dk) ==
    IF cp # <<>> /\ dk[cp[1]] # <<>>
    THEN [dk EXCEPT ![cp[1]] = <<>>]
    ELSE dk

\* The widgets the run renders below the uploader: the URL button (line
\* 84), the text input (line 125), the token button (line 131) and the
\* download button (line 172).
Rendered(cu, au, text, success) ==
    (IF cu THEN {"url_btn"} ELSE {})
    \cup (IF cu /\ au # <<>> THEN {"text"} ELSE {})
    \cup (IF cu /\ au # <<>> /\ text # <<>> THEN {"token_btn"} ELSE {})
    \cup (IF success THEN {"download_btn"} ELSE {})

(***************************************************************************)
(* One run of the script (lines 32-249), triggered by interaction ev, with *)
(* the uploader holding upl, the text input holding text, p the name the   *)
(* temp file gets and resp the provider's answer if it is asked.           *)
(***************************************************************************)
Script(ev, upl, text, p, resp) ==
    \E s1 \in {UploadStep(credentials_uploaded, credentials_path, disk, upl, p)} :
    \E s2 \in {UrlStep(s1.cu, s1.cp, auth_url, flow, s1.dk, ev = "gen_url")} :
    \E s3 \in {TokenStep(s1.cu, s2.au, s2.fl, text, ev = "gen_token", resp)} :
    \E widgets \in {Rendered(s1.cu, s2.au, text, s3.msg = "success")} :
        /\ uploaded_file' = upl
        /\ credentials_uploaded' = s1.cu
        /\ credentials_path' = s1.cp
        /\ upload_msg' = s1.msg
        /\ auth_url' = s2.au
        /\ url_built' = s2.built
        /\ url_msg' = s2.msg
        /\ flow' = s3.fl
        /\ requests' = s3.requests
        /\ auth_code' = s3.code
        /\ response' = s3.resp
        /\ token_data' = s3.td
        /\ token_msg' = s3.msg
        /\ attempt_failed' = IF s2.built = 1 THEN FALSE
                             ELSE IF s3.requests = 1 /\ s3.td = <<>> THEN TRUE
                             ELSE attempt_failed
        /\ disk' = Cleanup(s1.cp, s1.dk)
        /\ shown' = widgets
        \* A text input that is not rendered loses its value.
        /\ redirect_url' = IF "text" \in widgets THEN text ELSE <<>>

\* The run creates a temp file exactly when the uploader holds a file.
RunScript(ev, upl, text, resp) ==
    IF upl = <<>>
    THEN Script(ev, upl, text, 1, resp)
    ELSE /\ FreePaths(disk, credentials_path) # {}
         /\ Script(ev, upl, text, TempName(disk, credentials_path), resp)

NoResponse ==
    [status |-> "network", access_token |-> <<>>, refresh_token |-> <<>>,
     scope |-> <<>>]

(***************************************************************************)
(* Inputs of the main specification.                                       *)
(***************************************************************************)
\* Redirect strings the user may type.
Redirects ==
    {<<"h", "?", "code", "=", "ABC123", "&", "scope", "=", "x">>,
     <<"h", "?", "scope", "=", "x", "&", "code", "=", "%41", "+">>,
     <<"h", "?", "scope", "=", "x">>,
     <<"ABC123">>}

(***************************************************************************)
(* The state after the first run of a new session: nothing uploaded.       *)
(***************************************************************************)
Init ==
    /\ uploaded_file = <<>>
    /\ redirect_url = <<>>
    /\ shown = {}
    /\ credentials_uploaded = FALSE
    /\ credentials_path = <<>>
    /\ auth_url = <<>>
    /\ flow = <<>>
    /\ disk = [p \in Paths |-> <<>>]
    /\ upload_msg = "none"
    /\ url_built = 0
    /\ url_msg = "none"
    /\ requests = 0
    /\ auth_code = <<>>
    /\ response = <<>>
    /\ token_data = <<>>
    /\ token_msg = "none"
    /\ attempt_failed = FALSE

(***************************************************************************)
(* The interactions.                                                       *)
(***************************************************************************)
\* The user puts a file into the uploader, or replaces the one in it.
Upload ==
    \E f \in Files :
        /\ uploaded_file # <<f>>
        /\ RunScript("upload", <<f>>, redirect_url, NoResponse)

\* The user removes the file from the uploader.
RemoveFile ==
    /\ uploaded_file # <<>>
    /\ RunScript("remove", <<>>, redirect_url, NoResponse)

ClickGenerateUrl ==
    /\ "url_btn" \in shown
    /\ RunScript("gen_url", uploaded_file, redirect_url, NoResponse)

\* The user changes the text of the redirect input.
EnterRedirect ==
    /\ "text" \in shown
    /\ \E s \in (Redirects \cup {<<>>}) \ {redirect_url} :
           RunScript("text", uploaded_file, s, NoResponse)

ClickGenerateToken ==
    /\ "token_btn" \in shown
    /\ \E resp \in Responses :
           RunScript("gen_token", uploaded_file, redirect_url, resp)

\* st.download_button reruns the script like any other button.
ClickDownload ==
    /\ "download_btn" \in shown
    /\ RunScript("download", uploaded_file, redirect_url, NoResponse)

Next ==
    \/ Upload
    \/ RemoveFile
    \/ ClickGenerateUrl
    \/ EnterRedirect
    \/ ClickGenerateToken
    \/ ClickDownload

Spec == Init /\ [][Next]_vars

(***************************************************************************)
(* Second specification: the same script, driven with one valid desktop    *)
(* descriptor and with every redirect string of the bounded families       *)
(* below, to exercise the code extraction of lines 134-140.                *)
(***************************************************************************)
FreeTokens == {"code", "A", "=", "&", "?", "#"}

\* Every string of at most MaxLen tokens.
FreeStrings == UNION {[1..k -> FreeTokens] : k \in 0..MaxLen}

ParamNames == {<<"code">>, <<"c%6Fde">>, <<"scope">>}

ParamTails == {<<>>, <<"=">>, <<"=", "%41", "+">>, <<"=", "B", "=", "A">>}

Params == {n \o t : n \in ParamNames, t \in ParamTails}

RECURSIVE JoinParams(_)
JoinParams(ps) ==
    IF Len(ps) = 1 THEN ps[1]
    ELSE ps[1] \o <<"&">> \o JoinParams(Tail(ps))

\* "h" stands for the part of the URL before the query.
QueryStrings ==
    {<<"h", "?">> \o JoinParams(ps) \o f :
        ps \in UNION {[1..k -> Params] : k \in 1..MaxPairs},
        f \in {<<>>, <<"#", "code", "=", "F">>}}

UploadDesktop ==
    /\ uploaded_file = <<>>
    /\ RunScript("upload", <<InstalledFile("A")>>, redirect_url, NoResponse)

\* The user types into the empty redirect input.
TypedRedirects == (FreeStrings \cup QueryStrings) \ {<<>>}

TypeRedirect ==
    /\ "text" \in shown
    /\ redirect_url = <<>>
    /\ \E s \in TypedRedirects :
           RunScript("text", uploaded_file, s, NoResponse)

NextExtract ==
    \/ UploadDesktop
    \/ ClickGenerateUrl
    \/ TypeRedirect
    \/ ClickGenerateToken

SpecExtract == Init /\ [][NextExtract]_vars

(***************************************************************************)
(* Vocabulary of the properties.  These definitions say what a redirect    *)
(* string contains by position (RFC 3986: the fragment starts at the first *)
(* "#", the query at the first "?" before it; parameters are separated by  *)
(* "&", name and value by the first "="); they do not use the split-based  *)
(* operators the script is modelled with.                                  *)
(***************************************************************************)
Least(S) == CHOOSE i \in S : \A j \in S : i <= j

FragmentAt(s) ==
    LET hs == {i \in 1..Len(s) : s[i] = "#"} IN
    IF hs = {} THEN Len(s) + 1 ELSE Least(hs)

QueryMarks(s) == {i \in 1..(FragmentAt(s) - 1) : s[i] = "?"}

\* Where the query's parameters start: after the "?" and after each "&".
ParamStarts(s) ==
    IF QueryMarks(s) = {} THEN {}
    ELSE LET q == Least(QueryMarks(s)) IN
         {i \in (q + 1)..(FragmentAt(s) - 1) : i = q + 1 \/ s[i - 1] = "&"}

\* Where the parameter starting at i ends: at the next "&" or with the query.
ParamEnd(s, i) ==
    Least({j \in i..FragmentAt(s) : j = FragmentAt(s) \/ s[j] = "&"})

\* <<i, k, e>>: a parameter occupying s[i..e-1] whose first "=" is s[k].
ParamsAt(s) ==
    {<<i, Least({k \in i..(ParamEnd(s, i) - 1) : s[k] = "="}), ParamEnd(s, i)>> :
        i \in {j \in ParamStarts(s) :
                 \E k \in j..(ParamEnd(s, j) - 1) : s[k] = "="}}

\* The code parameters with a non-empty value.
CodeParamsAt(s) ==
    {t \in ParamsAt(s) :
        /\ Unquote(SubSeq(s, t[1], t[2] - 1)) = <<"code">>
        /\ t[2] + 1 < t[3]}

HasCodeParam(s) == CodeParamsAt(s) # {}

\* The decoded value of the first code parameter with a non-empty value.
FirstCodeValue(s) ==
    LET t == CHOOSE t \in CodeParamsAt(s) :
                 \A u \in CodeParamsAt(s) : t[1] <= u[1]
    IN  Unquote(SubSeq(s, t[2] + 1, t[3] - 1))

\* A bare authorization code: some text without any URL delimiter.
IsBareCode(s) ==
    /\ s # <<>>
    /\ \A i \in 1..Len(s) : s[i] \notin {"?", "#", "&", "="}

\* The last run executed the Generate Token handler.
TokenHandlerRan == token_msg # "none"

\* The last run's exchange failed: a request was made and raised.
ExchangeFailed == requests = 1 /\ token_msg = "exception"

TokenFields ==
    {"token", "refresh_token", "token_uri", "client_id", "client_secret",
     "scopes"}

(***************************************************************************)
(* Properties.                                                             *)
(***************************************************************************)

\* C1 as stated: once an exchange has failed, no run issues a token
\* request until an authorization URL has been generated again.
C1_FailedIsTerminal == [][attempt_failed => requests' = 0]_vars

\* C1, amended: a failed exchange produces no token descriptor and leaves
\* the authorization URL and the flow in the session as they were, with
\* the Generate Token button still offered, so the same flow can be used
\* for a further attempt without a fresh authorization URL.
C1_FailedKeepsFlow ==
    [][ExchangeFailed' =>
          /\ token_data' = <<>>
          /\ auth_url' = auth_url
          /\ flow' = flow
          /\ attempt_failed'
          /\ "token_btn" \in shown']_vars

C1_Witness == ExchangeFailed /\ response[1].status = "invalid_grant"

\* C2: a run issues a token request only on an authorization URL and flow
\* that an earlier run generated; the URL and flow change only in a run
\* that generates them, which happens only with credentials_uploaded set;
\* and credentials_uploaded becomes set only in a run whose uploaded file
\* is a JSON object with an installed client that has a client_id.
C2_StepsInOrder ==
    [][/\ requests' = 1 =>
             /\ auth_url # <<>> /\ flow # <<>>
             /\ url_built' = 0
             /\ credentials_uploaded'
       /\ (auth_url' # auth_url \/ url_built' = 1) =>
             /\ url_built' = 1
             /\ credentials_uploaded'
             /\ auth_url' # <<>> /\ flow' # <<>>
       /\ (credentials_uploaded' /\ ~credentials_uploaded) =>
             /\ uploaded_file' # <<>>
             /\ uploaded_file'[1].kind = "object"
             /\ uploaded_file'[1].installed # <<>>
             /\ uploaded_file'[1].installed[1].client_id # <<>>]_vars

C2_Witness == token_msg = "success" /\ requests = 1 /\ uploaded_file = <<>>

\* C3: a token descriptor is produced only by a run whose token request
\* was answered with a token, and then it has exactly the six fields and
\* the provider's access token; a run that reports an error produces none,
\* and the download is offered only with a descriptor.
C3_AllOrNothing ==
    /\ token_data # <<>> =>
          /\ requests = 1
          /\ response # <<>> /\ response[1].status = "ok"
          /\ token_msg = "success"
          /\ DOMAIN token_data[1] = TokenFields
          /\ token_data[1].token = response[1].access_token
          /\ token_data[1].token # <<>>
    /\ token_msg \in {"no_code", "exception"} => token_data = <<>>
    /\ "download_btn" \in shown => token_data # <<>>

C3_Witness ==
    /\ token_data # <<>>
    /\ token_data[1].refresh_token = <<>>
    /\ attempt_failed

\* C4: while a descriptor with neither installed nor web is the uploaded
\* file, credentials_uploaded is false, the last run generated no URL and
\* made no exchange, and neither button is offered.
C4_NoKeysRejected ==
    uploaded_file = <<NoKeysFile>> =>
        /\ ~credentials_uploaded
        /\ upload_msg = "not_desktop"
        /\ url_built = 0
        /\ requests = 0
        /\ shown \cap {"url_btn", "token_btn"} = {}

C4_Witness == uploaded_file = <<NoKeysFile>> /\ auth_url # <<>> /\ flow # <<>>

\* C5 as stated: while a descriptor with both installed and web is the
\* uploaded file, the upload is not accepted and no URL is generated.
C5_BothKeysRejected ==
    uploaded_file = <<BothFile>> =>
        /\ ~credentials_uploaded
        /\ url_built = 0

\* C6 as stated: a descriptor with only web is accepted and step 2 is
\* offered.
C6_WebAccepted ==
    uploaded_file = <<WebFile>> =>
        /\ credentials_uploaded
        /\ "url_btn" \in shown

\* C6, amended: a descriptor with only web is rejected as not being a
\* desktop application file: credentials_uploaded is false, no URL is
\* generated and step 2 is not offered.
C6_WebRejected ==
    uploaded_file = <<WebFile>> =>
        /\ ~credentials_uploaded
        /\ upload_msg = "not_desktop"
        /\ url_built = 0
        /\ "url_btn" \notin shown

C6_Witness == uploaded_file = <<WebFile>> /\ upload_msg # "none"

\* C7: a Generate Token run on a redirect string without a code parameter
\* reports the missing code, issues no token request, produces no token
\* descriptor and leaves credentials_uploaded, auth_url and flow unchanged.
C7_NoCodeNoRequest ==
    [][(TokenHandlerRan' /\ ~HasCodeParam(redirect_url')) =>
          /\ token_msg' = "no_code"
          /\ requests' = 0
          /\ auth_code' = <<>>
          /\ token_data' = <<>>
          /\ session' = session]_vars

C7_Witness ==
    /\ TokenHandlerRan
    /\ redirect_url = <<"h", "?", "scope", "=", "x">>
    /\ flow # <<>>

\* C8: a Generate Token run on a redirect string whose query has a code
\* parameter with a non-empty value hands the token exchange exactly the
\* (decoded) value of the first such parameter, whatever else the query
\* holds.
C8_CodeIsFirstCodeValue ==
    (TokenHandlerRan /\ HasCodeParam(redirect_url)) =>
        /\ requests = 1
        /\ auth_code = <<FirstCodeValue(redirect_url)>>

C8_Witness ==
    /\ TokenHandlerRan
    /\ redirect_url =
         <<"h", "?", "scope", "=", "B", "=", "A", "&", "code", "=", "%41", "+">>
    /\ auth_code = <<<<"A", " ">>>>

\* C9 as stated: a Generate Token run on a bare code uses that string as
\* the authorization code of the exchange.
C9_BareCodeUsed ==
    (TokenHandlerRan /\ IsBareCode(redirect_url)) =>
        /\ requests = 1
        /\ auth_code = <<redirect_url>>

\* C9, amended: a Generate Token run on a bare code finds no code in it:
\* it reports the missing code and issues no token request.
C9_BareCodeRejected ==
    (TokenHandlerRan /\ IsBareCode(redirect_url)) =>
        /\ token_msg = "no_code"
        /\ requests = 0
        /\ auth_code = <<>>
        /\ token_data = <<>>

C9_Witness == TokenHandlerRan /\ redirect_url = <<"A", "A">>

\* C10 as stated: at the end of every run no temp file is left on disk.
C10_NoTempFileLeft == \A p \in Paths : disk[p] = <<>>

\* The last run executed the Generate Authorization URL handler.
UrlHandlerRan == url_msg # "none"

\* C11: a run issues at most one token request and builds at most one
\* flow; a token request that the provider does not answer with a token is
\* not repeated but ends the run with the error message and no descriptor,
\* and a URL generation that builds no flow ends with its error message.
C11_NoAutomaticRetry ==
    /\ requests \in {0, 1}
    /\ url_built \in {0, 1}
    /\ requests = 1 <=> response # <<>>
    /\ (response # <<>> /\ token_data = <<>>) =>
          /\ requests = 1
          /\ token_msg = "exception"
          /\ "download_btn" \notin shown
    /\ (TokenHandlerRan /\ requests = 0) => token_msg \in {"no_code"}
    /\ (UrlHandlerRan /\ url_built = 0) => url_msg \notin {"none", "generated"}
    /\ url_built = 1 => url_msg = "generated"

C11_Witness == ExchangeFailed /\ response[1].status = "network" /\ attempt_failed

\* The client object Flow.from_client_secrets_file(...) read for the flow.
FlowClient == flow[1].client_config

\* C12: the descriptor of a successful exchange carries the provider's
\* access token and refresh token (none when the provider sent none), the
\* token_uri, client_id and client_secret of the client the flow was built
\* from, and the granted scopes.
C12_TokenFieldsFromResponseAndClient ==
    token_msg = "success" =>
        /\ token_data # <<>>
        /\ token_data[1].token = response[1].access_token
        /\ token_data[1].refresh_token = response[1].refresh_token
        /\ token_data[1].token_uri = FlowClient.token_uri
        /\ token_data[1].client_id = FlowClient.client_id
        /\ token_data[1].client_secret = FlowClient.client_secret
        /\ token_data[1].token_uri = <<"token_uri", FlowClient.client_id[1]>>
        /\ token_data[1].client_secret = <<"secret", FlowClient.client_id[1]>>
        /\ token_data[1].scopes = response[1].scope

C12_Witness ==
    /\ token_msg = "success"
    /\ response[1].refresh_token = <<>>
    /\ token_data[1].client_id = <<"B">>

\* The authorization request a desktop descriptor calls for: its installed
\* client at its authorization endpoint, the three scopes, offline access,
\* granted scopes included, the localhost redirect.
RequestFor(file) ==
    [endpoint               |-> file.installed[1].auth_uri,
     client_id              |-> file.installed[1].client_id,
     redirect_uri           |-> "http://localhost:8080",
     response_type          |-> "code",
     scope                  |-> <<"gmail.modify", "gmail.readonly", "calendar">>,
     access_type            |-> "offline",
     include_granted_scopes |-> "true"]

\* C13: every authorization URL in the session asks for the three scopes
\* with access_type=offline, include_granted_scopes=true and the localhost
\* redirect; and the URL a run generates for an uploaded descriptor with
\* only the installed client is the request of that descriptor, whatever
\* the session held before.
C13_UrlParameters ==
    /\ auth_url # <<>> =>
          /\ auth_url[1].scope = <<"gmail.modify", "gmail.readonly", "calendar">>
          /\ auth_url[1].access_type = "offline"
          /\ auth_url[1].include_granted_scopes = "true"
          /\ auth_url[1].redirect_uri = "http://localhost:8080"
          /\ auth_url[1].response_type = "code"
    /\ (url_built = 1 /\ uploaded_file # <<>> /\ uploaded_file[1].web = <<>>) =>
          auth_url = <<RequestFor(uploaded_file[1])>>
    /\ url_built = 1 => uploaded_file # <<>>

\* A URL generated for B in a session that held a flow of A with a token.
C13_Witness ==
    /\ url_built = 1
    /\ uploaded_file = <<InstalledFile("B")>>
    /\ attempt_failed = FALSE
    /\ redirect_url # <<>>

\* The client configurations the uploaded descriptor carries.
CurrentClients ==
    IF uploaded_file = <<>> THEN {}
    ELSE {c[1] : c \in {uploaded_file[1].installed, uploaded_file[1].web} \ {<<>>}}

\* C14: an exchange uses a flow of the descriptor that is uploaded now, the
\* authorization URL on the page names a client of that descriptor, and the
\* client_id and client_secret of token.json are that descriptor's.
C14_FlowOfCurrentDescriptor ==
    /\ requests = 1 => flow[1].client_config \in CurrentClients
    /\ (credentials_uploaded /\ auth_url # <<>>) =>
          auth_url[1].client_id \in {c.client_id : c \in CurrentClients}
    /\ token_msg = "success" =>
          \E c \in CurrentClients :
              /\ token_data[1].client_id = c.client_id
              /\ token_data[1].client_secret = c.client_secret

\* C15: a click on Generate Authorization URL finds the temporary
\* credentials file at credentials_path.
C15_CredentialsFileExists == UrlHandlerRan => url_msg # "no_such_file"

\* C16: auth_url is set exactly when flow is set; a run changes either only
\* by a successful URL generation, which sets both; a failed generation
\* leaves both as they were; and the Generate Token handler that found a
\* code always had a flow to send it with.
C16_UrlIffFlow ==
    [][/\ (auth_url' = <<>>) <=> (flow' = <<>>)
       /\ auth_url' # auth_url => url_built' = 1
       /\ (flow' = <<>>) # (flow = <<>>) => url_built' = 1
       /\ url_built' = 1 => /\ auth_url' # <<>>
                            /\ flow'[1].client_config.client_id = auth_url'[1].client_id
       /\ (UrlHandlerRan' /\ url_built' = 0) => /\ auth_url' = auth_url
                                                /\ flow' = flow
       /\ (TokenHandlerRan' /\ token_msg' # "no_code") =>
              /\ flow' # <<>>
              /\ requests' = 1]_vars

\* A failed URL generation in a session that holds a URL and a flow.
C16_Witness ==
    /\ UrlHandlerRan
    /\ url_built = 0
    /\ auth_url # <<>>
    /\ flow # <<>>

====
